---- MODULE Spec2Model ----
(***************************************************************************)
(* ZMultiField: several bounded fields packed into one sorted-set score.   *)
(* The codec (multifield.go, multifieldset.go, zmultifield.go) is modelled *)
(* together with the sorted set it reads and writes.                       *)
(*                                                                         *)
(* Numbers.  A *big.Int is a record [neg, mag]: a sign and a magnitude,    *)
(* the magnitude being the set of bit positions that are 1, so that values *)
(* of 53 bits and more are exact.  A float64 the caller passes (MaxValue,  *)
(* an amount) is a record [inf, halves]: +Inf, or a count of halves, so    *)
(* that 0.5 and 2.5 exist and int64(x)/uint64(x) truncate.  A float64 the  *)
(* store holds is integral and is kept as the big integer it equals.       *)
(***************************************************************************)
EXTENDS Integers, Sequences, FiniteSets, TLC

----------------------------------------------------------------------------
(* Magnitudes: sets of bit positions *)

Max(S) == 0 - (CHOOSE x \in {0 - i : i \in S} : \A y \in {0 - i : i \in S} : x <= y)

RECURSIVE Pow2(_)
Pow2(n) == IF n = 0 THEN 1 ELSE 2 * Pow2(n - 1)

Pow2s == [i \in 0..30 |-> Pow2(i)]

MagOfNat(n) == {i \in 0..30 : (n \div Pow2s[i]) % 2 = 1}

MagCmp(a, b) ==
    IF a = b THEN 0
    ELSE IF Max((a \ b) \cup (b \ a)) \in a THEN 1 ELSE -1

MagAdd(a, b) ==
    LET gen == a \cap b
        prop == a \cup b
        carry(i) == \E j \in gen : j < i /\ \A k \in (j + 1)..(i - 1) : k \in prop
    IN  IF gen = {} THEN prop
        ELSE {i \in prop \cup {j + 1 : j \in prop} :
                ((i \in a) # (i \in b)) # carry(i)}

\* a - b for a >= b
MagSub(a, b) ==
    LET gen == b \ a
        borrow(i) == \E j \in gen : j < i /\
                        \A k \in (j + 1)..(i - 1) : ~(k \in a /\ k \notin b)
        top == IF a = {} THEN 0 ELSE Max(a)
    IN  IF gen = {} THEN a \ b
        ELSE {i \in 0..top : ((i \in a) # (i \in b)) # borrow(i)}

MagRange(lo, hi) == {i \in lo..hi : TRUE}

----------------------------------------------------------------------------
(* math/big as the codec uses it *)

Big(neg, mag) == [neg |-> neg /\ mag # {}, mag |-> mag]

NewInt(n) == IF n < 0 THEN Big(TRUE, MagOfNat(0 - n)) ELSE Big(FALSE, MagOfNat(n))

Zero == Big(FALSE, {})

Sign(x) == IF x.mag = {} THEN 0 ELSE IF x.neg THEN -1 ELSE 1

Cmp(x, y) ==
    IF x.neg # y.neg THEN (IF x.neg THEN -1 ELSE 1)
    ELSE IF x.neg THEN MagCmp(y.mag, x.mag) ELSE MagCmp(x.mag, y.mag)

Add(x, y) ==
    IF x.neg = y.neg THEN Big(x.neg, MagAdd(x.mag, y.mag))
    ELSE IF MagCmp(x.mag, y.mag) >= 0 THEN Big(x.neg, MagSub(x.mag, y.mag))
    ELSE Big(y.neg, MagSub(y.mag, x.mag))

Sub(x, y) == Add(x, Big(~y.neg, y.mag))

\* the only multiplication is by a field's multiplier, +1 or -1
Mul(x, y) == Big(x.neg # y.neg, x.mag)

Lsh(x, n) == Big(x.neg, {i + n : i \in x.mag})

\* only ever applied to the non-negative result of And
Rsh(x, n) == Big(x.neg, {i - n : i \in {j \in x.mag : j >= n}})

\* y is a mask (never negative); a negative x is read in two's complement:
\* x & y = y &^ (|x| - 1)
And(x, y) ==
    IF x.neg THEN Big(FALSE, y.mag \ MagSub(x.mag, {0}))
    ELSE Big(FALSE, x.mag \cap y.mag)

BitLen(x) == IF x.mag = {} THEN 0 ELSE Max(x.mag) + 1

----------------------------------------------------------------------------
(* float64 values callers pass *)

PosInf == [inf |-> TRUE, halves |-> 0]
Fin(n) == [inf |-> FALSE, halves |-> 2 * n]
Halves(h) == [inf |-> FALSE, halves |-> h]

IsInf(x) == x.inf

\* int64(x): truncation toward zero
Int64OfFloat(x) ==
    IF x.halves >= 0 THEN x.halves \div 2 ELSE 0 - ((0 - x.halves) \div 2)

----------------------------------------------------------------------------
(* zmultifield.go *)

Ascending == 1
Descending == -1
Incremental == 1
Replace == 2

\* bits.Len64(uint64(n)) unless n <= 0
BitCount(n) ==
    IF n.halves <= 0 THEN 1
    ELSE BitLen(NewInt(n.halves \div 2))

MaxBin(n) == IF n = 0 THEN Zero ELSE Big(FALSE, MagRange(0, n - 1))

----------------------------------------------------------------------------
(* multifield.go *)

SafeBits == 53

newMultiField(f) ==
    LET isMain == IsInf(f.MaxValue)
        bits == IF isMain THEN SafeBits ELSE BitCount(f.MaxValue)
        mask == MaxBin(bits)
    IN  [Name |-> f.Name, Sort |-> f.Sort, MaxValue |-> f.MaxValue,
         UpdateType |-> f.UpdateType,
         bits |-> bits, position |-> 0, shiftValue |-> 0, mask |-> mask,
         isMain |-> isMain,
         maxAbsolute |-> IF isMain THEN MaxBin(SafeBits) ELSE mask,
         multiplier |-> IF f.Sort = Descending THEN NewInt(-1) ELSE NewInt(1)]

\* a bug to test against: every field defaults to 0, whatever its sort order
defaultScoreZero(mf) == Zero

defaultScore(mf) == IF mf.Sort = Descending THEN mf.maxAbsolute ELSE Zero

\* a bug to test against: defaultScore returns the field's own maxAbsolute
defaultScoreSharesAlways(mf) == mf.Sort = Descending

\* whether the *big.Int defaultScore returns is the field's maxAbsolute itself:
\* it is a copy made by new(big.Int).Set, or a fresh big.NewInt(0)
defaultScoreShares(mf) == FALSE

\* 53 - shiftValue is computed in uint64: past 53 it wraps to nearly 2^64 and
\* MaxBin cannot allocate that many bits, so the call panics
setIndexPanics(mf, shiftValue) == mf.isMain /\ shiftValue > SafeBits

setIndex(mf, position, shiftValue) ==
    LET shifted == Lsh(mf.mask, shiftValue)
        mask == IF mf.isMain /\ BitLen(shifted) > SafeBits
                THEN Lsh(MaxBin(SafeBits), shiftValue)
                ELSE shifted
        bits == IF mf.isMain THEN SafeBits - shiftValue ELSE mf.bits
    IN  [mf EXCEPT !.position = position, !.shiftValue = shiftValue,
                   !.mask = mask, !.bits = bits,
                   !.maxAbsolute = IF mf.isMain THEN MaxBin(bits) ELSE @]

----------------------------------------------------------------------------
(* multifieldset.go: construction *)

\* a bug to test against: positions counted from the last declared field
RECURSIVE setIndicesReversed(_, _, _)
setIndicesReversed(mfs, i, totalShifts) ==
    IF i = 0 THEN [panic |-> FALSE, fields |-> mfs]
    ELSE IF setIndexPanics(mfs[i], totalShifts) THEN [panic |-> TRUE, fields |-> mfs]
    ELSE LET mf == setIndex(mfs[i], Len(mfs) - i, totalShifts)
         IN  setIndicesReversed([mfs EXCEPT ![i] = mf], i - 1, totalShifts + mf.bits)

\* the loop of New that runs setIndex from the last declared field to the first
RECURSIVE setIndices(_, _, _)
setIndices(mfs, i, totalShifts) ==
    IF i = 0 THEN [panic |-> FALSE, fields |-> mfs]
    ELSE IF setIndexPanics(mfs[i], totalShifts) THEN [panic |-> TRUE, fields |-> mfs]
    ELSE LET mf == setIndex(mfs[i], i - 1, totalShifts)
         IN  setIndices([mfs EXCEPT ![i] = mf], i - 1, totalShifts + mf.bits)

\* a bug to test against: each score shifted by its field's own width instead
\* of the field's shiftValue
RECURSIVE shiftedSumByWidth(_, _, _)
shiftedSumByWidth(flds, scores, i) ==
    IF i = 0 THEN Zero
    ELSE Add(shiftedSumByWidth(flds, scores, i - 1), Lsh(scores[i], flds[i].bits))

RECURSIVE shiftedSum(_, _, _)
shiftedSum(flds, scores, i) ==
    IF i = 0 THEN Zero
    ELSE Add(shiftedSum(flds, scores, i - 1), Lsh(scores[i], flds[i].shiftValue))

scoresToZScore(flds, scores) == shiftedSum(flds, scores, Len(scores))

extractFieldScore(field, zscore) == Rsh(And(zscore, field.mask), field.shiftValue)

getFieldScores(flds, zscore) ==
    [i \in 1..Len(flds) |-> extractFieldScore(flds[i], zscore)]

defaultScores(flds) == [i \in 1..Len(flds) |-> defaultScore(flds[i])]

\* 0 stands for the nil *multiField
GetFieldByName(flds, name) ==
    IF \E i \in 1..Len(flds) : flds[i].Name = name
    THEN CHOOSE i \in 1..Len(flds) :
            flds[i].Name = name /\ \A j \in 1..(i - 1) : flds[j].Name # name
    ELSE 0

New(o) ==
    LET failed(e) == [err |-> e, fields |-> <<>>, defaultZScore |-> Zero]
        made == [i \in 1..Len(o.Fields) |-> newMultiField(o.Fields[i])]
        placed == setIndices(made, Len(made), 0)
    IN  IF o.Name = "" THEN failed("name is required")
        ELSE IF Len(o.Fields) = 0 THEN failed("at least one field is required")
        ELSE IF ~o.Client THEN failed("Redis client is required")
        ELSE IF placed.panic THEN failed("panic")
        ELSE [err |-> "", fields |-> placed.fields,
              defaultZScore |-> scoresToZScore(placed.fields, defaultScores(placed.fields))]

----------------------------------------------------------------------------
(* the score as the sorted set holds it: float64(z.Int64()) *)

Int64Bits == 64
F64Mantissa == 53

\* (*big.Int).Int64: the low 64 bits of |x| as an int64, negated for x < 0
Int64(x) ==
    LET low == {i \in x.mag : i < Int64Bits}
        wrapped == MagSub({Int64Bits}, low)
    IN  IF low = {} THEN Zero
        ELSE IF ~x.neg
             THEN (IF (Int64Bits - 1) \in low THEN Big(TRUE, wrapped) ELSE Big(FALSE, low))
             ELSE (IF MagCmp(low, {Int64Bits - 1}) <= 0 THEN Big(TRUE, low)
                   ELSE Big(FALSE, wrapped))

\* float64(int64): round to nearest, ties to even, at 53 significant bits
Float64(x) ==
    LET cut == BitLen(x) - F64Mantissa
        high == {i \in x.mag : i >= cut}
        half == (cut - 1) \in x.mag
        sticky == \E i \in x.mag : i < cut - 1
        odd == cut \in x.mag
    IN  IF cut <= 0 THEN x
        ELSE IF half /\ (sticky \/ odd) THEN Big(x.neg, MagAdd(high, {cut}))
        ELSE Big(x.neg, high)

Score(zscore) == Float64(Int64(zscore))

\* int64(float64) of a stored score: exact inside the int64 range; 2^63 itself
\* is outside it and the result depends on the platform (minimum on amd64,
\* maximum on arm64)
Int64sOfScore(v) ==
    IF ~v.neg /\ v.mag = {Int64Bits - 1}
    THEN {Big(TRUE, {Int64Bits - 1}), Big(FALSE, MagRange(0, Int64Bits - 2))}
    ELSE {v}

----------------------------------------------------------------------------
(* multifieldset.go: the operations on a member *)

Absent == [present |-> FALSE, score |-> Zero]
Held(v) == [present |-> TRUE, score |-> v]

\* a bug to test against: the loop without its range check
RECURSIVE applyUpdatesUnchecked(_, _, _, _)
applyUpdatesUnchecked(flds, scores, upd, k) ==
    IF k > Len(upd) THEN [err |-> "", scores |-> scores]
    ELSE LET idx == GetFieldByName(flds, upd[k].name)
         IN  IF idx = 0 THEN [err |-> "field not found", scores |-> scores]
             ELSE LET field == flds[idx]
                      p == field.position + 1
                      inc == Mul(NewInt(Int64OfFloat(upd[k].amount)), field.multiplier)
                      v == IF field.UpdateType = Incremental THEN Add(scores[p], inc)
                           ELSE Add(defaultScore(field), inc)
                  IN  IF field.UpdateType \notin {Incremental, Replace}
                      THEN [err |-> "unknown update type", scores |-> scores]
                      ELSE applyUpdatesUnchecked(flds, [scores EXCEPT ![p] = v], upd, k + 1)

\* a bug to test against: an Incremental entry adds to the value the entry
\* before it produced, whichever field that entry named
RECURSIVE applyUpdatesChained(_, _, _, _)
applyUpdatesChained(flds, scores, upd, k) ==
    IF k > Len(upd) THEN [err |-> "", scores |-> scores]
    ELSE LET idx == GetFieldByName(flds, upd[k].name)
         IN  IF idx = 0 THEN [err |-> "field not found", scores |-> scores]
             ELSE LET field == flds[idx]
                      p == field.position + 1
                      q == IF k = 1 THEN p
                           ELSE LET before == GetFieldByName(flds, upd[k - 1].name)
                                IN  IF before = 0 THEN p ELSE flds[before].position + 1
                      inc == Mul(NewInt(Int64OfFloat(upd[k].amount)), field.multiplier)
                      v == IF field.UpdateType = Incremental THEN Add(scores[q], inc)
                           ELSE Add(defaultScore(field), inc)
                      next == [scores EXCEPT ![p] = v]
                  IN  IF field.UpdateType \notin {Incremental, Replace}
                      THEN [err |-> "unknown update type", scores |-> scores]
                      ELSE IF Sign(v) < 0 \/ Cmp(v, field.maxAbsolute) > 0
                      THEN [err |-> "out of range", scores |-> next]
                      ELSE applyUpdatesChained(flds, next, upd, k + 1)

\* the loop over the update map, from its k-th entry in iteration order; the
\* same loop serves a member that is absent and one that is present
RECURSIVE applyUpdates(_, _, _, _)
applyUpdates(flds, scores, upd, k) ==
    IF k > Len(upd) THEN [err |-> "", scores |-> scores]
    ELSE LET idx == GetFieldByName(flds, upd[k].name)
         IN  IF idx = 0 THEN [err |-> "field not found", scores |-> scores]
             ELSE LET field == flds[idx]
                      p == field.position + 1
                      inc == Mul(NewInt(Int64OfFloat(upd[k].amount)), field.multiplier)
                      v == IF field.UpdateType = Incremental THEN Add(scores[p], inc)
                           ELSE Add(defaultScore(field), inc)
                      next == [scores EXCEPT ![p] = v]
                  IN  IF field.UpdateType \notin {Incremental, Replace}
                      THEN [err |-> "unknown update type", scores |-> scores]
                      ELSE IF Sign(v) < 0 \/ Cmp(v, field.maxAbsolute) > 0
                      THEN [err |-> "out of range", scores |-> next]
                      ELSE applyUpdates(flds, next, upd, k + 1)

\* the codec after IncreaseScore ran its loop on the scores in `scores`: on
\* redis.Nil the loop adds in place to what defaultScore returned, which
\* changes a field's maxAbsolute if that is what defaultScore returned
fieldsAfter(flds, entry, scores) ==
    [i \in 1..Len(flds) |->
        IF ~entry.present /\ defaultScoreShares(flds[i])
                /\ flds[i].UpdateType = Incremental
        THEN [flds[i] EXCEPT !.maxAbsolute = scores[flds[i].position + 1]]
        ELSE flds[i]]

\* the scores IncreaseScore starts from: the defaults on redis.Nil, else the
\* fields of the fetched score cur
startScores(flds, entry, cur) ==
    IF entry.present THEN getFieldScores(flds, cur) ELSE defaultScores(flds)

\* the map CalculateScoresFromZScore returns, keyed by field name
CalculateScoresFromZScore(flds, zscore) ==
    [name \in {flds[i].Name : i \in 1..Len(flds)} |->
        LET i == CHOOSE k \in 1..Len(flds) :
                    flds[k].Name = name /\ \A j \in (k + 1)..Len(flds) : flds[j].Name # name
            fieldVal == extractFieldScore(flds[i], zscore)
        IN  IF flds[i].Sort = Descending THEN Sub(flds[i].maxAbsolute, fieldVal)
            ELSE fieldVal]

zscoreToAllFieldScores(flds, zscore) ==
    [i \in 1..Len(flds) |->
        LET fieldVal == extractFieldScore(flds[i], zscore)
        IN  [Name |-> flds[i].Name,
             Score |-> IF flds[i].Sort = Descending
                       THEN Sub(flds[i].maxAbsolute, fieldVal) ELSE fieldVal]]

----------------------------------------------------------------------------
(* the options New is given, and the calls made on the result *)

MaxCalls == 3

F(name, sort, maxValue, updateType) ==
    [Name |-> name, Sort |-> sort, MaxValue |-> maxValue, UpdateType |-> updateType]

U(name, amount) == [name |-> name, amount |-> amount]

Cfg(name, flds, client, members, inputs) ==
    [opts |-> [Name |-> name, Fields |-> flds, Client |-> client],
     members |-> members, inputs |-> inputs]

Wide == Pow2(29) - 1

Configs == <<
    \* the leaderboard of the examples
    Cfg("kd", <<F("kills", Descending, Fin(10000), Incremental),
                F("deaths", Ascending, Fin(10000), Incremental)>>, TRUE, {"m1"},
        {<<U("kills", Fin(5)), U("deaths", Fin(2))>>,
         <<U("kills", Fin(16383)), U("deaths", Fin(10000))>>,
         <<U("deaths", Fin(16384))>>,
         <<U("kills", Fin(-1))>>}),
    \* the codec of the unit tests
    Cfg("test", <<F("field1", Descending, Fin(100), Incremental),
                  F("field2", Ascending, Fin(50), Incremental)>>, TRUE, {"m1", "m2"},
        {<<U("field1", Fin(101))>>,
         <<U("field1", Fin(20)), U("field2", Fin(30))>>,
         <<U("field2", Fin(30)), U("nosuch", Fin(1))>>}),
    \* Replace fields
    Cfg("rp", <<F("rank", Ascending, Fin(3), Replace),
                F("lvl", Descending, Fin(5), Replace)>>, TRUE, {"m1"},
        {<<U("rank", Fin(2))>>, <<U("lvl", Fin(4))>>, <<U("rank", Fin(4))>>,
         <<U("lvl", Halves(3))>>}),
    \* a main field declared first
    Cfg("mf", <<F("score", Descending, PosInf, Incremental),
                F("lvl", Ascending, Fin(255), Incremental)>>, TRUE, {"m1"},
        {<<U("score", Fin(7))>>, <<U("lvl", Fin(255))>>, <<U("lvl", Fin(1))>>,
         <<U("score", Fin(-1))>>}),
    \* a main field declared last
    Cfg("ml", <<F("lvl", Ascending, Fin(3), Incremental),
                F("score", Ascending, PosInf, Incremental)>>, TRUE, {"m1"},
        {<<U("score", Fin(1))>>, <<U("lvl", Fin(1))>>, <<U("lvl", Fin(-1))>>,
         <<U("lvl", Fin(0))>>}),
    \* 11 bits above a main field: 64 bits in all
    Cfg("w64", <<F("p", Descending, Fin(2047), Incremental),
                 F("m", Ascending, PosInf, Incremental)>>, TRUE, {"m1", "m2"},
        {<<U("p", Fin(1024))>>, <<U("p", Fin(0))>>, <<U("m", Fin(1))>>}),
    \* a main field between two bounded ones
    Cfg("mm", <<F("a", Ascending, Fin(3), Incremental),
                F("m", Ascending, PosInf, Incremental),
                F("b", Descending, Fin(3), Replace)>>, TRUE, {"m1"},
        {<<U("a", Fin(1))>>, <<U("m", Fin(1))>>, <<U("b", Fin(1))>>,
         <<U("a", Fin(1)), U("b", Fin(1))>>}),
    \* two bounded fields of 29 bits
    Cfg("wb", <<F("x", Ascending, Fin(Wide), Incremental),
                F("y", Ascending, Fin(Wide), Incremental)>>, TRUE, {"m1"},
        {<<U("x", Fin(Pow2(24)))>>, <<U("x", Fin(0 - Pow2(24)))>>, <<U("y", Fin(1))>>,
         <<U("x", Fin(0))>>}),
    \* a negative, a fractional and a zero MaxValue, an unknown UpdateType
    Cfg("neg", <<F("n", Ascending, Fin(-5), Incremental)>>, TRUE, {"m1"},
        {<<U("n", Fin(1))>>, <<U("n", Fin(2))>>, <<U("n", Halves(1))>>}),
    Cfg("fr", <<F("f", Ascending, Halves(1), Incremental),
                F("z", Descending, Fin(0), Incremental)>>, TRUE, {"m1"},
        {<<U("f", Fin(1))>>, <<U("z", Fin(1))>>, <<U("f", Fin(0))>>}),
    Cfg("ut", <<F("odd", Ascending, Fin(7), 3),
                F("ok", Ascending, Fin(7), Incremental)>>, TRUE, {"m1"},
        {<<U("odd", Fin(1))>>, <<U("ok", Fin(1))>>, <<U("ok", Halves(1))>>,
         <<U("ok", Fin(8)), U("odd", Fin(1))>>}),
    \* two main fields
    Cfg("m2", <<F("m1", Ascending, PosInf, Incremental),
                F("m2", Descending, PosInf, Incremental)>>, TRUE, {"m1"},
        {<<U("m1", Fin(1))>>, <<U("m2", Fin(1))>>, <<U("m1", Fin(0))>>}),
    \* options New refuses, and options it panics on
    Cfg("", <<F("a", Ascending, Fin(3), Incremental)>>, TRUE, {"m1"}, {}),
    Cfg("nofields", <<>>, TRUE, {"m1"}, {}),
    Cfg("noclient", <<F("a", Ascending, Fin(3), Incremental)>>, FALSE, {"m1"}, {}),
    Cfg("deep", <<F("m", Ascending, PosInf, Incremental),
                  F("x", Ascending, Fin(Wide), Incremental),
                  F("y", Ascending, Fin(Wide), Incremental)>>, TRUE, {"m1"}, {}),
    \* 8 bits declared before a main field
    Cfg("lm", <<F("lvl", Descending, Fin(255), Incremental),
                F("score", Ascending, PosInf, Incremental)>>, TRUE, {"m1"},
        {<<U("score", Fin(1))>>, <<U("lvl", Fin(255))>>, <<U("lvl", Fin(1))>>})
>>

AllMembers == {"m1", "m2"}

\* the orders in which a map of n entries can be iterated
Orders(n) == {o \in [1..n -> 1..n] : \A i, j \in 1..n : o[i] = o[j] => i = j}

----------------------------------------------------------------------------
(* state *)

VARIABLES
    cfg,            \* which of Configs was given to New
    newErr,         \* the error New returned ("" for nil, "panic" if it did not return)
    fields,         \* MultiFieldSet.fields
    defaultZScore,  \* MultiFieldSet.defaultZScore
    store,          \* the sorted set: member -> score held, or Absent
    calls,          \* calls made so far
    last,           \* the last write call: arguments, what it fetched, what it returned
    prev,           \* the write call before it
    shown,          \* what the last read returned
    pk,             \* the last use of the codec's pure functions
    flight          \* the IncreaseScore calls running concurrently, by goroutine

vars == <<cfg, newErr, fields, defaultZScore, store, calls, last, prev, shown, pk, flight>>

opts == Configs[cfg].opts
Members == Configs[cfg].members
Inputs == Configs[cfg].inputs

NoCall == [op |-> "none", member |-> "", upd |-> <<>>, pre |-> Absent,
           err |-> "", ret |-> Zero, retNil |-> TRUE, post |-> Absent,
           fail |-> "none", fetches |-> 0, writes |-> 0]

NoRead == [op |-> "none", member |-> "", entry |-> Absent, err |-> "", scores |-> <<>>]

NoPack == [op |-> "none", V |-> <<>>, W |-> <<>>, zV |-> Zero, zW |-> Zero, back |-> <<>>]

Goroutines == 1..2

\* a goroutine that has not called IncreaseScore
Idle == [pc |-> "idle", member |-> "", upd |-> <<>>, entry |-> Absent, cur |-> Zero,
         first |-> FALSE, err |-> "", ret |-> Zero]

Init ==
    /\ cfg \in 1..Len(Configs)
    /\ newErr = New(opts).err
    /\ fields = New(opts).fields
    /\ defaultZScore = New(opts).defaultZScore
    /\ store = [m \in AllMembers |-> Absent]
    /\ calls = 0
    /\ last = NoCall
    /\ prev = NoCall
    /\ shown = NoRead
    /\ pk = NoPack
    /\ flight = [c \in Goroutines |-> Idle]

codec == <<cfg, newErr, fields, defaultZScore>>

----------------------------------------------------------------------------
(* actions *)

\* a bug to test against: the score is written whatever the update loop returned
increaseWritesAnyway(flds, entry, cur, upd, fail) ==
    LET applied == applyUpdates(flds, startScores(flds, entry, cur), upd, 1)
        finalZScore == scoresToZScore(flds, applied.scores)
        err == IF fail = "fetch" THEN "fetch failed"
               ELSE IF applied.err # "" THEN applied.err
               ELSE IF fail = "write" THEN "write failed"
               ELSE ""
    IN  [err |-> err,
         ret |-> IF err = "" THEN finalZScore ELSE Zero,
         retNil |-> err # "",
         post |-> IF fail = "none" THEN Held(Score(finalZScore)) ELSE entry,
         fetches |-> 1,
         writes |-> IF fail = "fetch" THEN 0 ELSE 1,
         fields |-> IF fail = "fetch" THEN flds
                    ELSE fieldsAfter(flds, entry, applied.scores)]

\* a bug to test against: a failed ZAdd is issued a second time, and succeeds
increaseRetries(flds, entry, cur, upd, fail) ==
    LET applied == applyUpdates(flds, startScores(flds, entry, cur), upd, 1)
        finalZScore == scoresToZScore(flds, applied.scores)
        err == IF fail = "fetch" THEN "fetch failed" ELSE applied.err
    IN  [err |-> err,
         ret |-> IF err = "" THEN finalZScore ELSE Zero,
         retNil |-> err # "",
         post |-> IF err = "" THEN Held(Score(finalZScore)) ELSE entry,
         fetches |-> 1,
         writes |-> IF err # "" THEN 0 ELSE IF fail = "write" THEN 2 ELSE 1,
         fields |-> IF fail = "fetch" THEN flds
                    ELSE fieldsAfter(flds, entry, applied.scores)]

\* what one IncreaseScore does to a member whose entry is `entry` and whose
\* fetched score converts to cur; upd is the map in its iteration order; fail
\* is what the store does: "fetch" fails ZScore, "write" fails ZAdd
increase(flds, entry, cur, upd, fail) ==
    LET applied == applyUpdates(flds, startScores(flds, entry, cur), upd, 1)
        finalZScore == scoresToZScore(flds, applied.scores)
        err == IF fail = "fetch" THEN "fetch failed"
               ELSE IF applied.err # "" THEN applied.err
               ELSE IF fail = "write" THEN "write failed"
               ELSE ""
    IN  [err |-> err,
         ret |-> IF err = "" THEN finalZScore ELSE Zero,
         retNil |-> err # "",
         post |-> IF err = "" THEN Held(Score(finalZScore)) ELSE entry,
         fetches |-> 1,
         writes |-> IF fail = "fetch" \/ applied.err # "" THEN 0 ELSE 1,
         fields |-> IF fail = "fetch" THEN flds
                    ELSE fieldsAfter(flds, entry, applied.scores)]

IncreaseScore(upd, member, fail) ==
    /\ newErr = ""
    /\ calls < MaxCalls
    /\ \E cur \in Int64sOfScore(store[member].score) :
        LET r == increase(fields, store[member], cur, upd, fail)
        IN  /\ store' = [store EXCEPT ![member] = r.post]
            /\ last' = [op |-> "IncreaseScore", member |-> member, upd |-> upd,
                        pre |-> store[member], err |-> r.err, ret |-> r.ret,
                        retNil |-> r.retNil, post |-> r.post, fail |-> fail,
                        fetches |-> r.fetches, writes |-> r.writes]
            /\ fields' = r.fields
    /\ prev' = last
    /\ calls' = calls + 1
    /\ UNCHANGED <<cfg, newErr, defaultZScore, flight, shown, pk>>

ResetMember(member, fail) ==
    /\ newErr = ""
    /\ calls < MaxCalls
    /\ store' = IF fail = "write" THEN store
                ELSE [store EXCEPT ![member] = Held(Score(defaultZScore))]
    /\ last' = [op |-> "ResetMember", member |-> member, upd |-> <<>>,
                pre |-> store[member],
                err |-> IF fail = "write" THEN "write failed" ELSE "",
                ret |-> Zero, retNil |-> TRUE, post |-> store'[member],
                fail |-> fail, fetches |-> 0, writes |-> 1]
    /\ prev' = last
    /\ calls' = calls + 1
    /\ UNCHANGED <<codec, flight, shown, pk>>

GetScores(member, fail) ==
    /\ newErr = ""
    /\ calls < MaxCalls
    /\ \E cur \in Int64sOfScore(store[member].score) :
        shown' = [op |-> "GetScores", member |-> member, entry |-> store[member],
                  err |-> IF fail = "fetch" THEN "fetch failed" ELSE "",
                  scores |->
                    IF fail = "fetch" THEN <<>>
                    ELSE IF ~store[member].present
                    THEN [i \in 1..Len(fields) |->
                            [Name |-> fields[i].Name, Score |-> defaultScore(fields[i])]]
                    ELSE zscoreToAllFieldScores(fields, cur)]
    /\ calls' = calls + 1
    /\ UNCHANGED <<codec, flight, store, last, prev, pk>>

\* the store answers every call
Next ==
    \/ \E member \in Members, u \in Inputs :
        \E o \in Orders(Len(u)) :
            IncreaseScore([i \in 1..Len(u) |-> u[o[i]]], member, "none")
    \/ \E member \in Members : ResetMember(member, "none")
    \/ \E member \in Members : GetScores(member, "none")

Spec == Init /\ [][Next]_vars

----------------------------------------------------------------------------
(* the other methods of MultiFieldSet, and a store that can fail *)

\* the loop of MaxScoreWithFields over the limits map, from its k-th entry
RECURSIVE applyLimits(_, _, _, _)
applyLimits(flds, scores, limits, k) ==
    IF k > Len(limits) THEN [err |-> "", scores |-> scores]
    ELSE LET idx == GetFieldByName(flds, limits[k].name)
         IN  IF idx = 0 THEN [err |-> "field not found", scores |-> scores]
             ELSE LET field == flds[idx]
                      inc == Mul(NewInt(Int64OfFloat(limits[k].amount)), field.multiplier)
                  IN  applyLimits(flds,
                                  [scores EXCEPT ![field.position + 1] =
                                        Add(defaultScore(field), inc)],
                                  limits, k + 1)

MaxScoreWithFields(flds, limits) ==
    LET applied == applyLimits(flds, defaultScores(flds), limits, 1)
    IN  [err |-> applied.err,
         ret |-> IF applied.err = "" THEN scoresToZScore(flds, applied.scores) ELSE Zero]

\* what GetScoreForField returns for a member whose entry is `entry` and whose
\* fetched score converts to cur
scoreForField(flds, fieldName, entry, cur, fail) ==
    LET idx == GetFieldByName(flds, fieldName)
        fieldVal == extractFieldScore(flds[idx], cur)
    IN  IF idx = 0 THEN [err |-> "field not found", ret |-> Zero]
        ELSE IF fail = "fetch" THEN [err |-> "fetch failed", ret |-> Zero]
        ELSE IF ~entry.present THEN [err |-> "", ret |-> defaultScore(flds[idx])]
        ELSE [err |-> "",
              ret |-> IF flds[idx].Sort = Descending
                      THEN Sub(flds[idx].maxAbsolute, fieldVal) ELSE fieldVal]

\* ZRANGE: the members held, by ascending score and then by name
MemberRank(m) == IF m = "m1" THEN 1 ELSE 2

Ranked(st) ==
    LET held == {m \in AllMembers : st[m].present}
        before(a, b) == \/ Cmp(st[a].score, st[b].score) < 0
                        \/ st[a].score = st[b].score /\ MemberRank(a) < MemberRank(b)
    IN  CHOOSE r \in [1..Cardinality(held) -> held] :
            \A i, j \in 1..Cardinality(held) : i < j => before(r[i], r[j])

ZRange(st, start, stop) ==
    LET r == Ranked(st)
        hi == IF stop + 1 < Len(r) THEN stop + 1 ELSE Len(r)
    IN  [i \in 1..(IF hi > start THEN hi - start ELSE 0) |-> r[start + i]]

GetScoreForField(fieldName, member, fail) ==
    /\ newErr = ""
    /\ calls < MaxCalls
    /\ \E cur \in Int64sOfScore(store[member].score) :
        LET r == scoreForField(fields, fieldName, store[member], cur, fail)
        IN  shown' = [op |-> "GetScoreForField", member |-> member,
                      entry |-> store[member], err |-> r.err,
                      scores |-> IF r.err = "" THEN <<[Name |-> fieldName, Score |-> r.ret]>>
                                 ELSE <<>>]
    /\ calls' = calls + 1
    /\ UNCHANGED <<codec, flight, store, last, prev, pk>>

GetMembers(limit, offset, fail) ==
    /\ newErr = ""
    /\ calls < MaxCalls
    /\ LET results == ZRange(store, offset, offset + limit - 1)
       IN  \E curs \in [1..Len(results) ->
                            UNION {Int64sOfScore(store[m].score) : m \in AllMembers}] :
            /\ \A i \in 1..Len(results) : curs[i] \in Int64sOfScore(store[results[i]].score)
            /\ shown' = [op |-> "GetMembers", member |-> "", entry |-> Absent,
                         err |-> IF fail = "fetch" THEN "fetch failed" ELSE "",
                         scores |->
                            IF fail = "fetch" THEN <<>>
                            ELSE [i \in 1..Len(results) |->
                                    [Member |-> results[i],
                                     Scores |-> zscoreToAllFieldScores(fields, curs[i])]]]
    /\ calls' = calls + 1
    /\ UNCHANGED <<codec, flight, store, last, prev, pk>>

CallMaxScoreWithFields(limits) ==
    /\ newErr = ""
    /\ calls < MaxCalls
    /\ LET r == MaxScoreWithFields(fields, limits)
       IN  shown' = [op |-> "MaxScoreWithFields", member |-> "", entry |-> Absent,
                     err |-> r.err, scores |-> <<r.ret>>]
    /\ calls' = calls + 1
    /\ UNCHANGED <<codec, flight, store, last, prev, pk>>

CallCalculateScores(zscore) ==
    /\ newErr = ""
    /\ calls < MaxCalls
    /\ shown' = [op |-> "CalculateScoresFromZScore", member |-> "", entry |-> Absent,
                 err |-> "", scores |-> CalculateScoresFromZScore(fields, zscore)]
    /\ calls' = calls + 1
    /\ UNCHANGED <<codec, flight, store, last, prev, pk>>

Permuted(u, o) == [i \in 1..Len(u) |-> u[o[i]]]

MaxAllCalls == 2

\* every method, against a store whose ZScore, ZAdd and ZRange can fail
NextAll ==
    \/ \E member \in Members, u \in Inputs, fail \in {"none", "fetch", "write"} :
        \E o \in Orders(Len(u)) :
            calls < MaxAllCalls /\ IncreaseScore(Permuted(u, o), member, fail)
    \/ \E member \in Members, fail \in {"none", "write"} :
        calls < MaxAllCalls /\ ResetMember(member, fail)
    \/ \E member \in Members, fail \in {"none", "fetch"} :
        calls < MaxAllCalls /\ GetScores(member, fail)
    \/ \E member \in Members, fail \in {"none", "fetch"}, i \in 1..Len(fields) :
        calls < MaxAllCalls /\ GetScoreForField(fields[i].Name, member, fail)
    \/ \E member \in Members :
        calls < MaxAllCalls /\ GetScoreForField("nosuch", member, "none")
    \/ \E limit \in 1..2, fail \in {"none", "fetch"} :
        calls < MaxAllCalls /\ GetMembers(limit, 0, fail)
    \/ \E u \in Inputs : calls < MaxAllCalls /\ CallMaxScoreWithFields(u)
    \/ calls < MaxAllCalls /\ CallCalculateScores(last.ret)

SpecAll == Init /\ [][NextAll]_vars

----------------------------------------------------------------------------
(* two IncreaseScore calls on one member, their store round trips interleaved *)

MaxSetupCalls == 1

\* goroutine c runs IncreaseScore up to the answer of ZScore; the goroutines are
\* numbered in the order of their fetches
Fetch(c, upd, member) ==
    /\ newErr = ""
    /\ flight[c].pc = "idle"
    /\ \A d \in Goroutines : d < c => flight[d].pc # "idle"
    /\ \A d \in Goroutines : flight[d].pc # "idle" => flight[d].member = member
    /\ \E cur \in Int64sOfScore(store[member].score) :
        flight' = [flight EXCEPT ![c] =
                    [pc |-> "fetched", member |-> member, upd |-> upd,
                     entry |-> store[member], cur |-> cur,
                     first |-> \A d \in Goroutines : flight[d].pc = "idle",
                     err |-> "", ret |-> Zero]]
    /\ UNCHANGED <<codec, store, calls, last, prev, shown, pk>>

\* goroutine c runs the rest of the call: the update loop, and ZAdd if the
\* loop returned no error
Finish(c) ==
    /\ flight[c].pc = "fetched"
    /\ LET f == flight[c]
           r == increase(fields, f.entry, f.cur, f.upd, "none")
       IN  /\ store' = IF r.err = "" THEN [store EXCEPT ![f.member] = r.post] ELSE store
           /\ flight' = [flight EXCEPT ![c].pc = "done", ![c].err = r.err, ![c].ret = r.ret]
           /\ last' = [op |-> "IncreaseScore", member |-> f.member, upd |-> f.upd,
                       pre |-> f.entry, err |-> r.err, ret |-> r.ret,
                       retNil |-> r.retNil, post |-> store'[f.member],
                       fail |-> "none", fetches |-> r.fetches, writes |-> r.writes]
           /\ fields' = r.fields
    /\ prev' = last
    /\ UNCHANGED <<cfg, newErr, defaultZScore, calls, shown, pk>>

Quiet == \A c \in Goroutines : flight[c].pc = "idle"

NextRace ==
    \/ \E member \in Members, u \in Inputs :
        Quiet /\ calls < MaxSetupCalls /\ IncreaseScore(u, member, "none")
    \/ \E member \in Members : Quiet /\ calls < MaxSetupCalls /\ ResetMember(member, "none")
    \/ \E c \in Goroutines, member \in Members, u \in Inputs : Fetch(c, u, member)
    \/ \E c \in Goroutines : Finish(c)

SpecRace == Init /\ [][NextRace]_vars

----------------------------------------------------------------------------
(* the codec's pure functions, applied to vectors of in-range packed values *)

\* packed values of a field: both ends of its range, and 1
Samples(field) ==
    {v \in {Zero, NewInt(1), field.maxAbsolute} : Cmp(v, field.maxAbsolute) <= 0}

Vectors(flds) ==
    {V \in [1..Len(flds) -> UNION {Samples(flds[i]) : i \in 1..Len(flds)}] :
        \A i \in 1..Len(flds) : V[i] \in Samples(flds[i])}

\* scoresToZScore on V, then getFieldScores on the result; W and zW keep the
\* vector packed before and its score
PackUnpack(V) ==
    /\ newErr = ""
    /\ pk' = [op |-> "pack", V |-> V, zV |-> scoresToZScore(fields, V),
              back |-> getFieldScores(fields, scoresToZScore(fields, V)),
              W |-> pk.V, zW |-> pk.zV]
    /\ UNCHANGED <<codec, flight, store, calls, last, prev, shown>>

NextCodec == \E V \in Vectors(fields) : PackUnpack(V)

SpecCodec == Init /\ [][NextCodec]_vars

----------------------------------------------------------------------------
(* properties *)

Returned == newErr = ""

\* V before W, the first-declared field compared first
LexLess(V, W) ==
    \E i \in 1..Len(V) : Cmp(V[i], W[i]) < 0 /\ \A j \in 1..(i - 1) : V[j] = W[j]

\* C1: round trip. For every codec New returns and every vector V of in-range
\* packed values, getFieldScores(scoresToZScore(V)) is V again.
C1_RoundTrip == (Returned /\ pk.op = "pack") => pk.back = pk.V

\* C2: lexicographic ordering. For every codec New returns and in-range vectors
\* V and W, scoresToZScore(V) < scoresToZScore(W) exactly when V comes before W
\* in the lexicographic order that compares the first-declared field first.
C2_LexOrder ==
    (Returned /\ pk.op = "pack" /\ Len(pk.W) = Len(pk.V))
        => ((Cmp(pk.zV, pk.zW) < 0) <=> LexLess(pk.V, pk.W))

\* a pair the first field decides against a later field
C2_Witness ==
    /\ Returned /\ pk.op = "pack" /\ Len(pk.W) = Len(pk.V)
    /\ \E i, j \in 1..Len(pk.V) :
        i < j /\ Cmp(pk.V[i], pk.W[i]) < 0 /\ Cmp(pk.V[j], pk.W[j]) > 0
    /\ Cmp(pk.zV, pk.zW) < 0
    /\ \E i \in 1..Len(fields) : fields[i].isMain

----------------------------------------------------------------------------
(* properties of the calls *)

Integral(x) == x.halves % 2 = 0
FloatAdd(x, y) == Halves(x.halves + y.halves)

Succeeded(c) == c.op = "IncreaseScore" /\ c.err = ""

\* what the read paths can report for a stored entry
Logical(entry) ==
    {zscoreToAllFieldScores(fields, cur) : cur \in Int64sOfScore(entry.score)}

\* C3: descending ordering. Field A Descending declared first, field B Ascending
\* declared second; X and Y are each built by one IncreaseScore from absent;
\* with equal logical B and logical A(X) > A(Y), the score stored for X is
\* strictly below the score stored for Y.
C3_DescendingOrder ==
    (/\ Returned /\ Len(fields) = 2
     /\ fields[1].Sort = Descending /\ fields[2].Sort = Ascending
     /\ Succeeded(last) /\ Succeeded(prev) /\ last.member # prev.member
     /\ ~last.pre.present /\ ~prev.pre.present)
    => \A x \in Logical(last.post), y \in Logical(prev.post) :
        /\ (x[2].Score = y[2].Score /\ Cmp(x[1].Score, y[1].Score) > 0)
                => Cmp(last.post.score, prev.post.score) < 0
        /\ (x[2].Score = y[2].Score /\ Cmp(y[1].Score, x[1].Score) > 0)
                => Cmp(prev.post.score, last.post.score) < 0

KillsDeaths ==
    <<F("kills", Descending, Fin(10000), Incremental),
      F("deaths", Ascending, Fin(10000), Incremental)>>

\* amount named for field `name` in the update map upd
AmountOf(upd, name) == (CHOOSE e \in {upd[i] : i \in 1..Len(upd)} : e.name = name).amount

InRangeAmount(x, field) ==
    Integral(x) /\ x.halves >= 0 /\ Cmp(NewInt(Int64OfFloat(x)), field.maxAbsolute) <= 0

\* the last call is IncreaseScore {kills: a, deaths: b} on an absent member
C4_Call ==
    /\ last.op = "IncreaseScore" /\ ~last.pre.present
    /\ {last.upd[i].name : i \in 1..Len(last.upd)} = {"kills", "deaths"}
    /\ Len(last.upd) = 2
    /\ InRangeAmount(AmountOf(last.upd, "kills"), fields[1])
    /\ InRangeAmount(AmountOf(last.upd, "deaths"), fields[2])

\* C4: read after write on [kills Descending 10000, deaths Ascending 10000].
\* deaths has 14 bits at offset 0 and kills 14 bits at offset 14; from absent,
\* IncreaseScore {kills: a, deaths: b} with in-range a and b succeeds, stores
\* packed deaths = b and packed kills = maxAbsolute(kills) - a, and GetScores
\* and CalculateScoresFromZScore report kills = a and deaths = b.
C4_ReadAfterWrite ==
    (Returned /\ opts.Fields = KillsDeaths) =>
        /\ fields[2].bits = 14 /\ fields[2].shiftValue = 0
        /\ fields[1].bits = 14 /\ fields[1].shiftValue = 14
        /\ C4_Call =>
            LET a == NewInt(Int64OfFloat(AmountOf(last.upd, "kills")))
                b == NewInt(Int64OfFloat(AmountOf(last.upd, "deaths")))
                read == CalculateScoresFromZScore(fields, last.ret)
            IN  /\ last.err = ""
                /\ last.post.present
                /\ \A cur \in Int64sOfScore(last.post.score) :
                    /\ extractFieldScore(fields[2], cur) = b
                    /\ extractFieldScore(fields[1], cur) = Sub(fields[1].maxAbsolute, a)
                /\ read["kills"] = a /\ read["deaths"] = b
                /\ (shown.op = "GetScores" /\ shown.member = last.member
                        /\ shown.entry = last.post)
                    => shown.scores = <<[Name |-> "kills", Score |-> a],
                                        [Name |-> "deaths", Score |-> b]>>

\* {deaths: +2, kills: +5} in that iteration order, then read back
C4_Witness ==
    /\ Returned /\ opts.Fields = KillsDeaths /\ C4_Call
    /\ last.upd = <<U("deaths", Fin(2)), U("kills", Fin(5))>>
    /\ shown.op = "GetScores" /\ shown.member = last.member /\ shown.entry = last.post
    /\ shown.scores[1].Score = NewInt(5)

\* C5: additivity of Incremental mode. Two IncreaseScore calls in sequence on
\* one member, {f: +x} then {f: +y}, f Incremental, x and y whole numbers and
\* both calls accepted, leave the stored score that the single call
\* {f: +(x+y)} leaves from the same starting state.
C5_Additivity ==
    (/\ Returned /\ Succeeded(last) /\ Succeeded(prev) /\ last.member = prev.member
     /\ Len(last.upd) = 1 /\ Len(prev.upd) = 1 /\ last.upd[1].name = prev.upd[1].name
     /\ Integral(last.upd[1].amount) /\ Integral(prev.upd[1].amount)
     /\ fields[GetFieldByName(fields, last.upd[1].name)].UpdateType = Incremental)
    => \A cur \in Int64sOfScore(prev.pre.score) :
        LET once == increase(fields, prev.pre, cur,
                             <<U(last.upd[1].name,
                                 FloatAdd(prev.upd[1].amount, last.upd[1].amount))>>,
                             "none")
        IN  once.err = "" /\ once.post = last.post

\* the logical value of a field before the last call, 0 for an absent member
LogicalBefore(c, i) ==
    IF c.pre.present
    THEN {l[i].Score : l \in Logical(c.pre)}
    ELSE {Zero}

\* C6: range rejection. An IncreaseScore that would raise a field's logical
\* value above the field's MaxValue, or lower it below 0, fails with the
\* out-of-range error.
C6_RangeRejection ==
    (/\ Returned /\ last.op = "IncreaseScore" /\ Len(last.upd) = 1
     /\ GetFieldByName(fields, last.upd[1].name) # 0)
    => LET i == GetFieldByName(fields, last.upd[1].name)
           amount == NewInt(Int64OfFloat(last.upd[1].amount))
       IN  \A before \in LogicalBefore(last, i) :
            LET after == IF fields[i].UpdateType = Incremental
                         THEN Add(before, amount) ELSE amount
                above == /\ ~IsInf(fields[i].MaxValue)
                         /\ fields[i].MaxValue.halves >= 0
                         /\ Cmp(Lsh(after, 1), NewInt(fields[i].MaxValue.halves)) > 0
            IN  (fields[i].UpdateType \in {Incremental, Replace}
                    /\ (above \/ Sign(after) < 0))
                => last.err = "out of range"

\* C7: no partial writes. A call that fails on an unknown field or on a value
\* out of range changes no member's stored score.
C7_NoPartialWrite ==
    [][(/\ prev' = last /\ calls' = calls + 1
        /\ last'.op = "IncreaseScore"
        /\ last'.err \in {"field not found", "out of range"})
       => store' = store]_vars

\* the call failed on its second entry, the first named a known field and was
\* in range, and the other member holds a score
C7_Witness ==
    /\ last.op = "IncreaseScore" /\ last.err = "field not found"
    /\ Len(last.upd) = 2 /\ GetFieldByName(fields, last.upd[1].name) # 0
    /\ last.pre.present /\ last.post = last.pre
    /\ \E m \in Members : m # last.member /\ store[m].present

\* C8: New never returns a codec that has a field with a negative MaxValue.
C8_NegativeMaxRejected ==
    Returned => \A i \in 1..Len(fields) :
        IsInf(fields[i].MaxValue) \/ fields[i].MaxValue.halves >= 0

RECURSIVE SumBits(_, _)
SumBits(flds, i) == IF i = 0 THEN 0 ELSE flds[i].bits + SumBits(flds, i - 1)

RECURSIVE SumBoundedBits(_, _)
SumBoundedBits(fs, i) ==
    IF i = 0 THEN 0
    ELSE (IF IsInf(fs[i].MaxValue) THEN 0 ELSE BitCount(fs[i].MaxValue))
            + SumBoundedBits(fs, i - 1)

\* C9: New fails when the bounded fields alone need more than 53 bits, and in
\* every codec it returns the bit widths of all fields sum to at most 53.
C9_WidthChecked ==
    /\ SumBoundedBits(opts.Fields, Len(opts.Fields)) > SafeBits => newErr \notin {"", "panic"}
    /\ Returned => SumBits(fields, Len(fields)) <= SafeBits

\* C10: in every codec New returns, each field's mask is (2^bits - 1) shifted
\* left by shiftValue, and the masks of two distinct fields share no bit.
C10_MaskInvariant ==
    Returned =>
        /\ \A i \in 1..Len(fields) :
            fields[i].mask = Lsh(MaxBin(fields[i].bits), fields[i].shiftValue)
        /\ \A i, j \in 1..Len(fields) :
            i # j => fields[i].mask.mag \cap fields[j].mask.mag = {}

----------------------------------------------------------------------------
(* properties of construction, continued *)

\* every field at its maxAbsolute
AllAtMax(flds) == [i \in 1..Len(flds) |-> flds[i].maxAbsolute]

\* one field of 8 bits and one unbounded field, in either order
EightAndMain ==
    /\ Len(opts.Fields) = 2
    /\ \E i, j \in 1..2 :
        /\ i # j /\ IsInf(opts.Fields[i].MaxValue)
        /\ ~IsInf(opts.Fields[j].MaxValue) /\ BitCount(opts.Fields[j].MaxValue) = 8

\* C11: main-field headroom. In a codec of one bounded field of 8 bits and one
\* unbounded field, declared in either order, the unbounded field has 45 bits
\* and maxAbsolute 2^45 - 1, and every field at its maxAbsolute packs to a
\* score below 2^53.
C11_MainHeadroom ==
    (Returned /\ EightAndMain) =>
        /\ \A i \in 1..2 : fields[i].isMain =>
            /\ fields[i].bits = SafeBits - 8
            /\ fields[i].maxAbsolute = MaxBin(SafeBits - 8)
        /\ BitLen(scoresToZScore(fields, AllAtMax(fields))) <= SafeBits

----------------------------------------------------------------------------
(* properties of the reads and of the update modes *)

\* the entry of a member stored with the default score, as after ResetMember
DefaultEntry == Held(Score(defaultZScore))

\* C12: default idempotence on reads. What GetScores and GetScoreForField
\* report for a member absent from the store is what they report for a member
\* stored with the default score, and that is 0 for every field, Ascending or
\* Descending.
C12_DefaultIdempotence ==
    (Returned /\ shown.err = "" /\ ~shown.entry.present) =>
        \A cur \in Int64sOfScore(DefaultEntry.score) :
            /\ shown.op = "GetScores" =>
                /\ shown.scores = zscoreToAllFieldScores(fields, cur)
                /\ \A i \in 1..Len(fields) : shown.scores[i].Score = Zero
            /\ shown.op = "GetScoreForField" =>
                /\ shown.scores[1].Score =
                    scoreForField(fields, shown.scores[1].Name, DefaultEntry, cur, "none").ret
                /\ shown.scores[1].Score = Zero

\* C13: Replace mode. A successful IncreaseScore {f: v} on a Replace field f
\* stores defaultScore(f) + v * multiplier(f) as the packed value of f whatever
\* f held before, the logical value of f reads back as v for both sort orders,
\* and the same update applied again leaves the stored score as it is.
C13_ReplaceMode ==
    (/\ Returned /\ Succeeded(last) /\ Len(last.upd) = 1
     /\ Integral(last.upd[1].amount)
     /\ fields[GetFieldByName(fields, last.upd[1].name)].UpdateType = Replace)
    => LET i == GetFieldByName(fields, last.upd[1].name)
           v == NewInt(Int64OfFloat(last.upd[1].amount))
       IN  \A cur \in Int64sOfScore(last.post.score) :
            /\ extractFieldScore(fields[i], cur)
                    = Add(defaultScore(fields[i]), Mul(v, fields[i].multiplier))
            /\ zscoreToAllFieldScores(fields, cur)[i].Score = v
            /\ increase(fields, last.post, cur, last.upd, "none").err = ""
            /\ increase(fields, last.post, cur, last.upd, "none").post = last.post

----------------------------------------------------------------------------
(* properties of concurrent calls and of a failing store *)

\* the entries one IncreaseScore with map u can leave for a member that held e
\* when the call fetched and still holds e when it writes
Applied(e, u) ==
    {LET r == increase(fields, e, cur, u, "none")
     IN  IF r.err = "" THEN r.post ELSE e : cur \in Int64sOfScore(e.score)}

BothDone == \A c \in Goroutines : flight[c].pc = "done"

\* what two calls with maps a and b can leave from e: one after the other in
\* either order, or one of them alone (the other one lost)
RaceOutcomes(e, a, b) ==
    Applied(e, a) \cup Applied(e, b)
        \cup UNION {Applied(x, b) : x \in Applied(e, a)}
        \cup UNION {Applied(x, a) : x \in Applied(e, b)}

InRangeEntry(e) ==
    e.present => \A cur \in Int64sOfScore(e.score), i \in 1..Len(fields) :
        /\ Sign(extractFieldScore(fields[i], cur)) >= 0
        /\ Cmp(extractFieldScore(fields[i], cur), fields[i].maxAbsolute) <= 0

\* C14: last writer wins. When two IncreaseScore calls on one member have run
\* concurrently, the score stored is one call's update applied to a score that
\* was stored when that call fetched: both updates one after the other, or one
\* of them alone; and no field of the stored score is out of range.
C14_LastWriterWins ==
    (Returned /\ BothDone) =>
        /\ store[flight[1].member]
                \in RaceOutcomes(flight[1].entry, flight[1].upd, flight[2].upd)
        /\ InRangeEntry(store[flight[1].member])

\* the part of C14 about the interleaving alone
C14_OneOfTheOutcomes ==
    (Returned /\ BothDone) =>
        store[flight[1].member]
            \in RaceOutcomes(flight[1].entry, flight[1].upd, flight[2].upd)

\* C15: store failures pass through without retry. If ZScore fails with an
\* error other than redis.Nil, IncreaseScore returns that error and issues no
\* ZAdd; if ZAdd fails, IncreaseScore returns that error and a nil score; and a
\* call invokes ZScore at most once and ZAdd at most once.
C15_StoreFailures ==
    last.op = "IncreaseScore" =>
        /\ last.fail = "fetch" =>
            /\ last.err = "fetch failed" /\ last.retNil
            /\ last.writes = 0 /\ last.post = last.pre
        /\ (last.fail = "write" /\ last.writes > 0) =>
            last.err = "write failed" /\ last.retNil
        /\ last.fetches <= 1 /\ last.writes <= 1

\* ZAdd failed in a call on a member an earlier call had stored
C15_Witness ==
    /\ last.op = "IncreaseScore" /\ last.fail = "write" /\ last.writes = 1
    /\ last.err = "write failed" /\ last.pre.present
    /\ Succeeded(prev)

----------------------------------------------------------------------------
(* properties of the widths, the range check and the positions *)

\* C17: bit width. For every bounded MaxValue >= 0 the field's bit width is the
\* bit length of the integer part of MaxValue, and at least 1: 1 for
\* MaxValue = 0 and for 0 < MaxValue < 1.
C17_BitWidth ==
    Returned => \A i \in 1..Len(fields) :
        (~IsInf(fields[i].MaxValue) /\ fields[i].MaxValue.halves >= 0) =>
            LET whole == NewInt(Int64OfFloat(fields[i].MaxValue))
            IN  /\ fields[i].bits >= 1
                /\ fields[i].bits = (IF whole = Zero THEN 1 ELSE BitLen(whole))

\* the packed value the update entry e gives field i from the scores in `from`
NewPacked(i, e, from) ==
    LET inc == Mul(NewInt(Int64OfFloat(e.amount)), fields[i].multiplier)
    IN  IF fields[i].UpdateType = Incremental
        THEN Add(from[fields[i].position + 1], inc)
        ELSE Add(defaultScore(fields[i]), inc)

\* C18: exact range check without clamping. An IncreaseScore on a known field
\* succeeds exactly when the field's new packed value v satisfies
\* 0 <= v <= maxAbsolute, and on success the packed value stored for the field
\* is v itself.
C18_ExactRange ==
    (/\ Returned /\ last.op = "IncreaseScore" /\ Len(last.upd) = 1
     /\ GetFieldByName(fields, last.upd[1].name) # 0
     /\ fields[GetFieldByName(fields, last.upd[1].name)].UpdateType
            \in {Incremental, Replace})
    => LET i == GetFieldByName(fields, last.upd[1].name)
       IN  \E cur \in Int64sOfScore(last.pre.score) :
            LET v == NewPacked(i, last.upd[1], startScores(fields, last.pre, cur))
            IN  /\ (last.err = "")
                        <=> (Sign(v) >= 0 /\ Cmp(v, fields[i].maxAbsolute) <= 0)
                /\ last.err = "" =>
                    \A held \in Int64sOfScore(last.post.score) :
                        extractFieldScore(fields[i], held) = v

RECURSIVE BitsAfter(_, _)
\* the sum of the bit widths of the fields declared after field i
BitsAfter(flds, i) == IF i >= Len(flds) THEN 0 ELSE flds[i + 1].bits + BitsAfter(flds, i + 1)

C20_OrderInsensitive ==
    (Returned /\ last.op = "IncreaseScore" /\ Len(last.upd) > 1) =>
        \A o \in Orders(Len(last.upd)) :
            \E cur \in Int64sOfScore(last.pre.score) :
                LET other == increase(fields, last.pre, cur, Permuted(last.upd, o), "none")
                IN  /\ (other.err = "") <=> (last.err = "")
                    /\ last.err = "" => other.post = last.post

\* a call naming two known fields has succeeded on a member that held a score
C20_Witness ==
    /\ Returned /\ Succeeded(last) /\ Len(last.upd) = 2 /\ last.pre.present
    /\ last.upd[1].name # last.upd[2].name
    /\ last.post # last.pre

----------------------------------------------------------------------------
(* properties of the stored scores *)

WithinSafeBits == SumBits(fields, Len(fields)) <= SafeBits

\* C21: stored-score invariant. In a codec whose field widths sum to at most
\* 53, after any sequence of IncreaseScore and ResetMember calls every score
\* the store holds is non-negative and below 2^53, is the score the call that
\* wrote it returned (the default score for ResetMember), and decodes with
\* extractFieldScore to a packed value in [0, maxAbsolute] for every field.
C21_StoredScore ==
    (Returned /\ WithinSafeBits) =>
        /\ \A m \in Members : store[m].present =>
            /\ Sign(store[m].score) >= 0
            /\ BitLen(store[m].score) <= SafeBits
            /\ InRangeEntry(store[m])
        /\ Succeeded(last) => store[last.member].score = last.ret
        /\ (last.op = "ResetMember" /\ last.err = "")
                => store[last.member].score = defaultZScore

\* a codec of exactly 53 bits in which a second call has stored a score that
\* uses bit 52
C21_Witness ==
    /\ Returned /\ SumBits(fields, Len(fields)) = SafeBits
    /\ Succeeded(last) /\ last.pre.present /\ last.post # last.pre
    /\ (SafeBits - 1) \in store[last.member].score.mag

\* the logical value of field i when its packed value is v
LogicalOf(i, v) == IF fields[i].Sort = Descending THEN Sub(fields[i].maxAbsolute, v) ELSE v

\* a step that is a successful IncreaseScore naming one field
OneFieldStep ==
    /\ Returned /\ calls' = calls + 1 /\ prev' = last
    /\ Succeeded(last') /\ Len(last'.upd) = 1

\* C22: update frame. A successful IncreaseScore on member m that names only
\* field f leaves the packed and the logical value of every other field of m
\* as they were, and leaves the stored score of every other member as it was.
C22_UpdateFrame ==
    [][OneFieldStep =>
        LET m == last'.member
            f == GetFieldByName(fields, last'.upd[1].name)
        IN  /\ \A other \in AllMembers : other # m => store'[other] = store[other]
            /\ \E cur \in Int64sOfScore(store[m].score) :
                \A held \in Int64sOfScore(store'[m].score), i \in 1..Len(fields) :
                    i # f =>
                        LET before == startScores(fields, store[m], cur)[i]
                            after == extractFieldScore(fields[i], held)
                        IN  after = before /\ LogicalOf(i, after) = LogicalOf(i, before)
      ]_vars

====
